---- MODULE Spec2Model ----
(***************************************************************************)
(* Model of the checked scalar casts of cast.rs (src/src/lib.rs).          *)
(*                                                                         *)
(* The crate is a set of macro-generated `CastFrom<src> for dst`           *)
(* implementations, listed in two tables: `mod _32` and `mod _64`.  The    *)
(* model keeps the tables as written, one operator per macro body, and one *)
(* action per macro that performs a single call.                           *)
(*                                                                         *)
(* Widths.  TLC's integers are 32 bits wide, so a byte has BitsPerByte     *)
(* bits here instead of 8; mem::size_of keeps its real values (1, 2, 4, 8  *)
(* bytes), so every ordering between ranges of kinds is the real one.      *)
(* A finite float is held exactly, as a count of halves (n = 2 * value),   *)
(* with a significand of MantBits bits; NaN and the infinities are         *)
(* separate classes.                                                       *)
(***************************************************************************)
EXTENDS Integers, FiniteSets, Sequences, TLC

VARIABLES arch, debug_assertions, macro, src, dst, val, out

vars == <<arch, debug_assertions, macro, src, dst, val, out>>

BitsPerByte == 2

----------------------------------------------------------------------------
(* The scalar kinds.                                                       *)

SignedKinds   == {"i8", "i16", "i32", "i64", "isize"}
UnsignedKinds == {"u8", "u16", "u32", "u64", "usize"}
IntKinds      == SignedKinds \cup UnsignedKinds
FloatKinds    == {"f32", "f64"}
Kinds         == IntKinds \cup FloatKinds

Archs == {"_32", "_64"}

Error == {"NaN", "Overflow", "Underflow"}

RECURSIVE Pow2(_)
Pow2(n) == IF n <= 0 THEN 1 ELSE 2 * Pow2(n - 1)

\* mem::size_of, in bytes
size_of(a, k) ==
    CASE k \in {"i8", "u8"}          -> 1
      [] k \in {"i16", "u16"}        -> 2
      [] k \in {"i32", "u32", "f32"} -> 4
      [] k \in {"i64", "u64", "f64"} -> 8
      [] k \in {"isize", "usize"}    -> IF a = "_32" THEN 4 ELSE 8

Bits(a, k) == BitsPerByte * size_of(a, k)

\* Int::min_value / Int::max_value
min_value(a, k) == IF k \in SignedKinds THEN 0 - Pow2(Bits(a, k) - 1) ELSE 0
max_value(a, k) == IF k \in SignedKinds THEN Pow2(Bits(a, k) - 1) - 1
                                        ELSE Pow2(Bits(a, k)) - 1

\* the fixed-width kind a native-width kind has the width of
Counterpart(a, k) ==
    CASE k = "isize" -> IF a = "_32" THEN "i32" ELSE "i64"
      [] k = "usize" -> IF a = "_32" THEN "u32" ELSE "u64"
      [] OTHER       -> k

----------------------------------------------------------------------------
(* Values.                                                                 *)

IntV(n) == [cls |-> "int",  n |-> n]
Fin(h)  == [cls |-> "fin",  n |-> h]
NaNV    == [cls |-> "nan",  n |-> 0]
PInf    == [cls |-> "pinf", n |-> 0]
NInf    == [cls |-> "ninf", n |-> 0]

Abs(x) == IF x < 0 THEN 0 - x ELSE x

\* number of bits of a natural number
RECURSIVE BitLen(_)
BitLen(x) == IF x <= 0 THEN 0 ELSE 1 + BitLen(x \div 2)

\* significand width: 24 bits for f32, 53 for f64 when a byte has 8 bits
MantBits(f) == IF f = "f32" THEN 3 * BitsPerByte ELSE 7 * BitsPerByte - 3

\* exponent of the largest finite value; scaled so that both formats lie
\* beyond every integer kind and f64 lies beyond f32, as they really do
EMax(f) == 8 * BitsPerByte + (IF f = "f32" THEN 1 ELSE 3)

\* Float::max_value / Float::min_value (the most negative finite value),
\* as mathematical values
FloatMax(f) == (Pow2(MantBits(f)) - 1) * Pow2(EMax(f) + 1 - MantBits(f))
FloatMin(f) == 0 - FloatMax(f)

\* round a natural number to p significant bits, ties to even
RoundNat(x, p) ==
    IF BitLen(x) <= p THEN x
    ELSE LET q    == Pow2(BitLen(x) - p)
             t    == x \div q
             rest == x - t * q
         IN  IF 2 * rest < q THEN t * q
             ELSE IF 2 * rest > q THEN (t + 1) * q
             ELSE IF t % 2 = 0 THEN t * q ELSE (t + 1) * q

\* is the finite value h/2 a value of float kind f
IsFloatOf(f, h) ==
    /\ RoundNat(Abs(h), MantBits(f)) = Abs(h)
    /\ Abs(h) <= 2 * FloatMax(f)

\* float comparison `<`: false whenever an operand is NaN
FLt(x, y) ==
    CASE x.cls = "nan" \/ y.cls = "nan" -> FALSE
      [] x.cls = "ninf" /\ y.cls # "nan" -> y.cls # "ninf"
      [] x.cls = "pinf" /\ y.cls # "nan" -> FALSE
      [] x.cls = "fin" /\ y.cls # "nan"  ->
            \/ y.cls = "pinf"
            \/ y.cls = "fin" /\ x.n < y.n

FGt(x, y) == FLt(y, x)

is_nan(x)      == x.cls = "nan"
is_infinite(x) == x.cls \in {"pinf", "ninf"}

----------------------------------------------------------------------------
(* The built-in `as` conversions.                                          *)

\* integer `as` integer: keep the low bits, reinterpret the sign
IntAsInt(a, n, d) ==
    LET m == Pow2(Bits(a, d))
        r == n % m
    IN  IF d \in SignedKinds /\ r >= m \div 2 THEN r - m ELSE r

\* integer `as` float: nearest float, ties to even
IntAsFloat(n, f) ==
    LET r == RoundNat(Abs(n), MantBits(f))
    IN  Fin(IF n < 0 THEN 0 - 2 * r ELSE 2 * r)

\* truncation toward zero of the finite value h/2
Trunc(h) == IF h >= 0 THEN h \div 2 ELSE 0 - ((0 - h) \div 2)

\* float `as` integer: truncation toward zero when the result fits; the
\* conversion of NaN, an infinity or an out-of-range value is undefined,
\* and may yield any value of the destination
FloatAsInt(a, x, d) ==
    IF x.cls = "fin" /\ Trunc(x.n) >= min_value(a, d)
                     /\ Trunc(x.n) <= max_value(a, d)
    THEN {IntV(Trunc(x.n))}
    ELSE {IntV(min_value(a, d)), IntV(0), IntV(max_value(a, d))}

\* f64 `as` f32: special values are kept, a finite value is rounded to the
\* f32 significand; a finite value beyond the f32 range is undefined
F64AsF32(x) ==
    IF x.cls # "fin" THEN {x}
    ELSE LET r == RoundNat(Abs(x.n), MantBits("f32"))
             s == IF x.n < 0 THEN 0 - r ELSE r
         IN  IF r <= 2 * FloatMax("f32") THEN {Fin(s)}
             ELSE {PInf, NInf, Fin(2 * FloatMax("f32")),
                   Fin(2 * FloatMin("f32"))}

\* `src as $dst` of the promotion macro, for any pair of kinds
AsCast(a, x, s, d) ==
    CASE s \in IntKinds /\ d \in IntKinds     -> {IntV(IntAsInt(a, x.n, d))}
      [] s \in IntKinds /\ d \in FloatKinds   -> {IntAsFloat(x.n, d)}
      [] s \in FloatKinds /\ d \in IntKinds   -> FloatAsInt(a, x, d)
      [] s = "f64" /\ d = "f32"               -> F64AsF32(x)
      [] OTHER                                -> {x}

----------------------------------------------------------------------------
(* The tables of mod _32 and mod _64: the (source, destination) pairs      *)
(* each macro is invoked on.                                               *)

Row(s, D) == {<<s, d>> : d \in D}

\* mod _32.  The row of isize in the first promotion! block lacks the comma
\* between `isize` and `i64`; its comma-separated destinations end at
\* isize, and i64 is not an element of the list.
promotion_32 ==
    Row("i8",    {"f32", "f64", "i8", "i16", "i32", "isize", "i64"})
    \cup Row("i16",   {"f32", "f64", "i16", "i32", "isize", "i64"})
    \cup Row("i32",   {"f32", "f64", "i32", "isize", "i64"})
    \cup Row("isize", {"f32", "f64", "i32", "isize"})
    \cup Row("i64",   {"f32", "f64", "i64"})
    \cup Row("u8",    {"f32", "f64", "i16", "i32", "isize", "i64",
                       "u8", "u16", "u32", "usize", "u64"})
    \cup Row("u16",   {"f32", "f64", "i32", "isize", "i64",
                       "u16", "u32", "usize", "u64"})
    \cup Row("u32",   {"f32", "f64", "isize", "i64", "u32", "usize", "u64"})
    \cup Row("usize", {"f32", "f64", "isize", "i64", "u32", "usize", "u64"})
    \cup Row("u64",   {"f32", "f64", "u64"})
    \cup Row("f32",   {"f32", "f64"})
    \cup Row("f64",   {"f64"})

half_promotion_32 ==
    Row("i8",    {"u8", "u16", "u32", "usize", "u64"})
    \cup Row("i16",   {"u16", "u32", "usize", "u64"})
    \cup Row("i32",   {"u32", "usize", "u64"})
    \cup Row("isize", {"u32", "usize", "u64"})
    \cup Row("i64",   {"u64"})

from_signed_32 ==
    Row("i16",   {"i8", "u8"})
    \cup Row("i32",   {"i8", "i16", "u8", "u16"})
    \cup Row("isize", {"i8", "i16", "u8", "u16"})
    \cup Row("i64",   {"i8", "i16", "i32", "isize", "u8", "u16", "u32", "usize"})

from_unsigned_32 ==
    Row("u8",    {"i8"})
    \cup Row("u16",   {"i8", "i16", "u8"})
    \cup Row("u32",   {"i8", "i16", "i32", "isize", "u8", "u16"})
    \cup Row("usize", {"i8", "i16", "i32", "isize", "u8", "u16"})
    \cup Row("u64",   {"i8", "i16", "i32", "isize", "i64",
                       "u8", "u16", "u32", "usize"})

from_float_32 ==
    Row("f32", IntKinds) \cup Row("f64", IntKinds)

f64_for_f32_32 == {<<"f64", "f32">>}

\* mod _64
promotion_64 ==
    Row("i8",    {"f32", "f64", "i8", "i16", "i32", "i64", "isize"})
    \cup Row("i16",   {"f32", "f64", "i16", "i32", "i64", "isize"})
    \cup Row("i32",   {"f32", "f64", "i32", "i64", "isize"})
    \cup Row("i64",   {"f32", "f64", "i64", "isize"})
    \cup Row("isize", {"f32", "f64", "i64", "isize"})
    \cup Row("u8",    {"f32", "f64", "i16", "i32", "i64", "isize",
                       "u8", "u16", "u32", "u64", "usize"})
    \cup Row("u16",   {"f32", "f64", "i32", "i64", "isize",
                       "u16", "u32", "u64", "usize"})
    \cup Row("u32",   {"f32", "f64", "i64", "isize", "u32", "u64", "usize"})
    \cup Row("u64",   {"f32", "f64", "u64", "usize"})
    \cup Row("usize", {"f32", "f64", "u64", "usize"})
    \cup Row("f32",   {"f32", "f64"})
    \cup Row("f64",   {"f64"})

half_promotion_64 ==
    Row("i8",    {"u8", "u16", "u32", "u64", "usize"})
    \cup Row("i16",   {"u16", "u32", "u64", "usize"})
    \cup Row("i32",   {"u32", "u64", "usize"})
    \cup Row("i64",   {"u64", "usize"})
    \cup Row("isize", {"u64", "usize"})

from_signed_64 ==
    Row("i16",   {"i8", "u8"})
    \cup Row("i32",   {"i8", "i16", "u8", "u16"})
    \cup Row("i64",   {"i8", "i16", "i32", "u8", "u16", "u32"})
    \cup Row("isize", {"i8", "i16", "i32", "u8", "u16", "u32"})

from_unsigned_64 ==
    Row("u8",    {"i8"})
    \cup Row("u16",   {"i8", "i16", "u8"})
    \cup Row("u32",   {"i8", "i16", "i32", "u8", "u16"})
    \cup Row("u64",   {"i8", "i16", "i32", "i64", "isize", "u8", "u16", "u32"})
    \cup Row("usize", {"i8", "i16", "i32", "i64", "isize", "u8", "u16", "u32"})

from_float_64 ==
    Row("f32", IntKinds) \cup Row("f64", IntKinds)

f64_for_f32_64 == {<<"f64", "f32">>}

Macros == {"promotion", "half_promotion", "from_signed", "from_unsigned",
           "from_float", "f64_for_f32"}

\* the pairs module a invokes macro m on
Table(a, m) ==
    CASE m = "promotion"      -> IF a = "_32" THEN promotion_32 ELSE promotion_64
      [] m = "half_promotion" -> IF a = "_32" THEN half_promotion_32
                                              ELSE half_promotion_64
      [] m = "from_signed"    -> IF a = "_32" THEN from_signed_32
                                              ELSE from_signed_64
      [] m = "from_unsigned"  -> IF a = "_32" THEN from_unsigned_32
                                              ELSE from_unsigned_64
      [] m = "from_float"     -> IF a = "_32" THEN from_float_32
                                              ELSE from_float_64
      [] m = "f64_for_f32"    -> IF a = "_32" THEN f64_for_f32_32
                                              ELSE f64_for_f32_64

\* the macros that generate an implementation for the pair (s, d)
ImplsOf(a, s, d) == {m \in Macros : <<s, d>> \in Table(a, m)}

----------------------------------------------------------------------------
(* Outcomes and the bodies of the generated `from` functions.  Each body   *)
(* yields the set of outcomes the call can have: one, unless it reaches an *)
(* undefined conversion.                                                   *)

NoValue  == [cls |-> "none", n |-> 0]
Bare(v)  == [tag |-> "Bare",  val |-> v,       err |-> "none"]
Ok(v)    == [tag |-> "Ok",    val |-> v,       err |-> "none"]
Err(e)   == [tag |-> "Err",   val |-> NoValue, err |-> e]
Panic    == [tag |-> "Panic", val |-> NoValue, err |-> "none"]
NoCall   == [tag |-> "None",  val |-> NoValue, err |-> "none"]

\* debug_assert!(cond) panics when the build checks it and cond is false
AssertFails(cond) == debug_assertions /\ ~cond

\* promotion!: Output = $dst
promotion(a, s, d, x) ==
    IF AssertFails(size_of(a, s) <= size_of(a, d)) THEN {Panic}
    ELSE {Bare(r) : r \in AsCast(a, x, s, d)}

\* half_promotion!
half_promotion(a, s, d, x) ==
    IF AssertFails(size_of(a, s) <= size_of(a, d)) THEN {Panic}
    ELSE IF x.n < 0 THEN {Err("Underflow")}
    ELSE {Ok(IntV(IntAsInt(a, x.n, d)))}

\* from_unsigned!
from_unsigned(a, s, d, x) ==
    LET upper_bound == max_value(a, d)
    IN  IF AssertFails(size_of(a, s) >= size_of(a, d)) THEN {Panic}
        ELSE IF x.n > IntAsInt(a, upper_bound, s) THEN {Err("Overflow")}
        ELSE {Ok(IntV(IntAsInt(a, x.n, d)))}

\* from_signed! without the test against the lower bound
from_signed_no_lower(a, s, d, x) ==
    LET upper_bound == max_value(a, d)
    IN  IF AssertFails(size_of(a, s) > size_of(a, d)) THEN {Panic}
        ELSE IF x.n > IntAsInt(a, upper_bound, s) THEN {Err("Overflow")}
        ELSE {Ok(IntV(IntAsInt(a, x.n, d)))}

\* from_signed!
from_signed(a, s, d, x) ==
    LET lower_bound == min_value(a, d)
        upper_bound == max_value(a, d)
    IN  IF AssertFails(size_of(a, s) > size_of(a, d)) THEN {Panic}
        ELSE IF x.n < IntAsInt(a, lower_bound, s) THEN {Err("Underflow")}
        ELSE IF x.n > IntAsInt(a, upper_bound, s) THEN {Err("Overflow")}
        ELSE {Ok(IntV(IntAsInt(a, x.n, d)))}

\* from_float! without the is_nan test
from_float_no_nan(a, s, d, x) ==
    LET lower_bound == min_value(a, d)
        upper_bound == min_value(a, d)
    IN  IF FLt(x, IntAsFloat(lower_bound, s)) THEN {Err("Underflow")}
        ELSE IF FGt(x, IntAsFloat(upper_bound, s)) THEN {Err("Overflow")}
        ELSE {Ok(r) : r \in FloatAsInt(a, x, d)}

\* from_float! with the first test widened to every non-finite value
from_float_not_finite(a, s, d, x) ==
    LET lower_bound == min_value(a, d)
        upper_bound == min_value(a, d)
    IN  IF is_nan(x) \/ is_infinite(x) THEN {Err("NaN")}
        ELSE IF FLt(x, IntAsFloat(lower_bound, s)) THEN {Err("Underflow")}
        ELSE IF FGt(x, IntAsFloat(upper_bound, s)) THEN {Err("Overflow")}
        ELSE {Ok(r) : r \in FloatAsInt(a, x, d)}

\* from_float!: both bounds are Int::min_value()
from_float(a, s, d, x) ==
    LET lower_bound == min_value(a, d)
        upper_bound == min_value(a, d)
    IN  IF is_nan(x) THEN {Err("NaN")}
        ELSE IF FLt(x, IntAsFloat(lower_bound, s)) THEN {Err("Underflow")}
        ELSE IF FGt(x, IntAsFloat(upper_bound, s)) THEN {Err("Overflow")}
        ELSE {Ok(r) : r \in FloatAsInt(a, x, d)}

\* impl CastFrom<f64> for f32 with only the is_nan half of the first test
f64_for_f32_nan_only(a, s, d, x) ==
    LET lower_bound == Fin(2 * FloatMin("f32"))
        upper_bound == Fin(2 * FloatMin("f32"))
    IN  IF is_nan(x) THEN {Ok(r) : r \in F64AsF32(x)}
        ELSE IF FLt(x, lower_bound) THEN {Err("Underflow")}
        ELSE IF FGt(x, upper_bound) THEN {Err("Overflow")}
        ELSE {Ok(r) : r \in F64AsF32(x)}

\* impl CastFrom<f64> for f32: both bounds are Float::min_value(); the
\* bounds are f32 values, widened exactly by `as f64`
f64_for_f32(a, s, d, x) ==
    LET lower_bound == Fin(2 * FloatMin("f32"))
        upper_bound == Fin(2 * FloatMin("f32"))
    IN  IF is_nan(x) \/ is_infinite(x) THEN {Ok(r) : r \in F64AsF32(x)}
        ELSE IF FLt(x, lower_bound) THEN {Err("Underflow")}
        ELSE IF FGt(x, upper_bound) THEN {Err("Overflow")}
        ELSE {Ok(r) : r \in F64AsF32(x)}

\* the body of the implementation macro m generates
Body(m, a, s, d, x) ==
    CASE m = "promotion"      -> promotion(a, s, d, x)
      [] m = "half_promotion" -> half_promotion(a, s, d, x)
      [] m = "from_signed"    -> from_signed(a, s, d, x)
      [] m = "from_unsigned"  -> from_unsigned(a, s, d, x)
      [] m = "from_float"     -> from_float(a, s, d, x)
      [] m = "f64_for_f32"    -> f64_for_f32(a, s, d, x)

\* every outcome `x.to::<d>()` can have: one per implementation of the pair
Outcomes(a, s, d, x) == UNION {Body(m, a, s, d, x) : m \in ImplsOf(a, s, d)}

----------------------------------------------------------------------------
(* Source values.  The integers are the bounds of every integer kind and   *)
(* their neighbours; the floats are those, their neighbours at distance    *)
(* one half, their doubles, and the bounds of the float formats.           *)

Boundaries(a) ==
    (-2 .. 2) \cup
    UNION {{min_value(a, k) - 1, min_value(a, k), min_value(a, k) + 1,
            max_value(a, k) - 1, max_value(a, k), max_value(a, k) + 1}
           : k \in IntKinds}

IntValues(a, s) ==
    {IntV(n) : n \in {b \in Boundaries(a) :
                        min_value(a, s) <= b /\ b <= max_value(a, s)}}

\* half the gap between f32's largest finite value and the one below it
HalfUlpAtF32Max == Pow2(EMax("f32") - MantBits("f32"))

FloatCandidates(a) ==
    LET pos == UNION {{2 * b - 1, 2 * b, 2 * b + 1, 4 * b}
                      : b \in Boundaries(a)}
               \cup {2 * FloatMax("f32"), 2 * FloatMax("f64"),
                     2 * Pow2(EMax("f32") + 1),
                     2 * (FloatMax("f32") - HalfUlpAtF32Max),
                     2 * (FloatMax("f32") + HalfUlpAtF32Max)}
    IN  pos \cup {0 - h : h \in pos}

FloatValues(a, f) ==
    {NaNV, PInf, NInf}
    \cup {Fin(h) : h \in {c \in FloatCandidates(a) : IsFloatOf(f, c)}}

Values(a, s) == IF s \in FloatKinds THEN FloatValues(a, s)
                                    ELSE IntValues(a, s)

----------------------------------------------------------------------------
(* The state machine: the build fixes the module (arch) and whether        *)
(* debug_assert! is compiled in (debug_assertions); a step is one          *)
(* call `x.to::<dst>()`, resolved to an implementation a macro generated.  *)
(* No state is kept between calls, so a behaviour is a build followed by   *)
(* one call.                                                               *)

Init ==
    /\ arch \in Archs
    /\ debug_assertions \in BOOLEAN
    /\ macro = "none"
    /\ src = "none"
    /\ dst = "none"
    /\ val = NoValue
    /\ out = NoCall

Record(m, s, d, x, o) ==
    /\ macro' = m
    /\ src' = s
    /\ dst' = d
    /\ val' = x
    /\ out' = o
    /\ UNCHANGED <<arch, debug_assertions>>

Promotion ==
    /\ macro = "none"
    /\ \E p \in Table(arch, "promotion") : \E x \in Values(arch, p[1]) :
         \E o \in promotion(arch, p[1], p[2], x) :
            Record("promotion", p[1], p[2], x, o)

HalfPromotion ==
    /\ macro = "none"
    /\ \E p \in Table(arch, "half_promotion") : \E x \in Values(arch, p[1]) :
         \E o \in half_promotion(arch, p[1], p[2], x) :
            Record("half_promotion", p[1], p[2], x, o)

FromSigned ==
    /\ macro = "none"
    /\ \E p \in Table(arch, "from_signed") : \E x \in Values(arch, p[1]) :
         \E o \in from_signed(arch, p[1], p[2], x) :
            Record("from_signed", p[1], p[2], x, o)

FromUnsigned ==
    /\ macro = "none"
    /\ \E p \in Table(arch, "from_unsigned") : \E x \in Values(arch, p[1]) :
         \E o \in from_unsigned(arch, p[1], p[2], x) :
            Record("from_unsigned", p[1], p[2], x, o)

FromFloat ==
    /\ macro = "none"
    /\ \E p \in Table(arch, "from_float") : \E x \in Values(arch, p[1]) :
         \E o \in from_float(arch, p[1], p[2], x) :
            Record("from_float", p[1], p[2], x, o)

F64ForF32 ==
    /\ macro = "none"
    /\ \E p \in Table(arch, "f64_for_f32") : \E x \in Values(arch, p[1]) :
         \E o \in f64_for_f32(arch, p[1], p[2], x) :
            Record("f64_for_f32", p[1], p[2], x, o)

Next ==
    \/ Promotion
    \/ HalfPromotion
    \/ FromSigned
    \/ FromUnsigned
    \/ FromFloat
    \/ F64ForF32

Spec == Init /\ [][Next]_vars

TypeOK ==
    /\ arch \in Archs
    /\ debug_assertions \in BOOLEAN
    /\ macro \in Macros \cup {"none"}
    /\ src \in Kinds \cup {"none"}
    /\ dst \in Kinds \cup {"none"}
    /\ out.tag \in {"None", "Bare", "Ok", "Err", "Panic"}
    /\ out.err \in Error \cup {"none"}

----------------------------------------------------------------------------
(* The claims.                                                             *)

Called == macro # "none"

\* C1: a finite float cast to an integer kind fails with Underflow exactly
\* when it is below the destination's minimum, with Overflow exactly when
\* it is above the destination's maximum, and otherwise succeeds with the
\* value truncated toward zero.
C1_FloatToIntRange ==
    (macro = "from_float" /\ val.cls = "fin") =>
        LET lo == 2 * min_value(arch, dst)
            hi == 2 * max_value(arch, dst)
        IN  /\ (out = Err("Underflow")) <=> (val.n < lo)
            /\ (out = Err("Overflow")) <=> (val.n > hi)
            /\ (lo <= val.n /\ val.n <= hi) => out = Ok(IntV(Trunc(val.n)))

\* C2: an integer cast generated by half_promotion, from_unsigned or
\* from_signed fails with Underflow exactly when the value is below the
\* destination's minimum (below zero for half_promotion), with Overflow
\* exactly when it is above the destination's maximum, and otherwise
\* succeeds with the same mathematical value, which widens back to the
\* source value.
C2_IntegerNarrowing ==
    (macro \in {"half_promotion", "from_unsigned", "from_signed"}) =>
        LET lo == IF macro = "half_promotion" THEN 0
                                              ELSE min_value(arch, dst)
            hi == max_value(arch, dst)
        IN  /\ (out = Err("Underflow")) <=> (val.n < lo)
            /\ (out = Err("Overflow")) <=> (val.n > hi)
            /\ (lo <= val.n /\ val.n <= hi) =>
                  /\ out = Ok(IntV(val.n))
                  /\ IntAsInt(arch, out.val.n, src) = val.n

C2_Witness ==
    /\ macro = "from_signed"
    /\ src = "i16"
    /\ dst = "i8"
    /\ val = IntV(min_value(arch, "i8"))
    /\ out = Ok(IntV(min_value(arch, "i8")))

\* C3, as stated: an infinity cast to an integer kind fails with Infinite.
C3_InfiniteError ==
    (macro = "from_float" /\ is_infinite(val)) => out = Err("Infinite")

\* C3, amended: there is no Infinite error and no test for infinity; after
\* the NaN test, positive infinity cast to an integer kind fails with
\* Overflow and negative infinity fails with Underflow.
C3_InfinityIsRangeError ==
    /\ (macro = "from_float" /\ val = PInf) => out = Err("Overflow")
    /\ (macro = "from_float" /\ val = NInf) => out = Err("Underflow")
    /\ out.err \in Error \cup {"none"}

C3_Witness ==
    /\ macro = "from_float"
    /\ src = "f64"
    /\ dst = "i64"
    /\ val = NInf
    /\ out = Err("Underflow")

\* C4: NaN cast to an integer kind fails with NaN, whatever the
\* destination.
C4_NaNError ==
    (macro = "from_float" /\ is_nan(val)) => out = Err("NaN")

C4_Witness ==
    /\ macro = "from_float"
    /\ src = "f32"
    /\ dst = "u8"
    /\ val = NaNV
    /\ out = Err("NaN")

\* C5: under both tables every pair of kinds has an implementation, and a
\* call has exactly one outcome, which is not a failed sanity assertion.
C5_Totality ==
    Called =>
        /\ \A d \in Kinds : ImplsOf(arch, src, d) # {}
        /\ Cardinality(Outcomes(arch, src, dst, val)) = 1
        /\ out.tag # "Panic"

\* C6: a finite f64 cast to f32 fails with Underflow below f32's finite
\* minimum, with Overflow above f32's finite maximum, and otherwise
\* succeeds with the value narrowed to f32.
C6_FloatNarrowRange ==
    (macro = "f64_for_f32" /\ val.cls = "fin") =>
        LET lo == 2 * FloatMin("f32")
            hi == 2 * FloatMax("f32")
        IN  /\ (val.n < lo) => out = Err("Underflow")
            /\ (val.n > hi) => out = Err("Overflow")
            /\ (lo <= val.n /\ val.n <= hi) =>
                  /\ out.tag = "Ok"
                  /\ out.val \in F64AsF32(val)

\* C7: NaN and the infinities cast from f64 to f32 succeed and keep the
\* special value.
C7_SpecialsPreserved ==
    (macro = "f64_for_f32" /\ (is_nan(val) \/ is_infinite(val))) =>
        /\ out.tag = "Ok"
        /\ out.val.cls = val.cls

C7_Witness ==
    /\ macro = "f64_for_f32"
    /\ val = NInf
    /\ out = Ok(NInf)

\* C8: an integer pair listed under promotion keeps the mathematical value,
\* and the result cast back to the source kind is the source value.
C8_PromotionLossless ==
    (macro = "promotion" /\ src \in IntKinds /\ dst \in IntKinds) =>
        /\ out = Bare(IntV(val.n))
        /\ min_value(arch, dst) <= val.n
        /\ val.n <= max_value(arch, dst)
        /\ IntAsInt(arch, out.val.n, src) = val.n

\* C9: in the table of the build, every ordered pair of kinds is listed
\* under exactly one macro.
C9_OneCategoryPerPair ==
    \A s \in Kinds : \A d \in Kinds : Cardinality(ImplsOf(arch, s, d)) = 1

\* C10: a call to or from a native-width kind has the implementations and
\* the outcomes of the same call with the fixed-width counterpart in its
\* place.
C10_NativeAsCounterpart ==
    Called =>
        /\ (dst \in {"isize", "usize"} /\ src # dst) =>
              LET c == Counterpart(arch, dst)
              IN  /\ ImplsOf(arch, src, dst) = ImplsOf(arch, src, c)
                  /\ Outcomes(arch, src, dst, val) = Outcomes(arch, src, c, val)
        /\ (src \in {"isize", "usize"} /\ src # dst) =>
              LET c == Counterpart(arch, src)
              IN  /\ ImplsOf(arch, src, dst) = ImplsOf(arch, c, dst)
                  /\ Outcomes(arch, src, dst, val) = Outcomes(arch, c, dst, val)

====
